---- MODULE Spec2Model ----
(***************************************************************************)
(* A model of FinalGameProject.py: a text Blackjack table with one deck,   *)
(* a dealer, any number of players, main bets, three side bets, double     *)
(* down and split.  Every prompt of the program (input()) is an input of   *)
(* an action; random.shuffle is a choice among the arrangements named in   *)
(* ShuffleKinds.                                                           *)
(***************************************************************************)
EXTENDS Bags, FiniteSets, Integers, Sequences, TLC

VARIABLES
    deck,            \* Deck.cards: the remaining cards, dealt from the end
    original_cards,  \* Deck.original_cards: every card ever created
    players,         \* Game.players: the active roster, in order
    dealer,          \* Game.dealer: [hand, total]
    balance,         \* Player.money.balance, per player
    hand,            \* Player.hand, per player
    total,           \* Player.total, per player
    current_bet,     \* Player.current_bet, per player
    side_bets,       \* Player.side_bets, per player: a dict kind -> amount
    pc,              \* the statement of Game.play the program is at
    cur,             \* index in players of the player the current loop is at
    kind,            \* index in SideKinds of the side bet being requested
    stack,           \* active split_hand calls, innermost last
    round,           \* rounds started so far
    out,             \* what the last step printed
    dealt,           \* history: the bag of all cards dealcards has returned
    firstTwo,        \* history: the two cards start_round dealt to each player
    staked,          \* history: amount debited for the main bet this round
    mainNet          \* history: net effect of the main bet on the balance

vars == <<deck, original_cards, players, dealer, balance, hand, total,
          current_bet, side_bets, pc, cur, kind, stack, round, out,
          dealt, firstTwo, staked, mainNet>>

----------------------------------------------------------------------------
(* Bounds of the model *)

MaxRounds == 2        \* rounds played in one session of Spec
MaxSplitDepth == 2    \* nested split_hand calls
MaxLongRounds == 6    \* rounds played in one session of SpecLong
MaxHandLen == 4       \* cards of the hands SpecHand builds

PlayerCounts == {1}             \* answers to "How many players are playing?"
TableCounts == {2}              \* the same, in SpecTable
CrowdCounts == {16}             \* the same, in SpecCrowd
TableBets == {100, 10000}       \* answers to the bet prompt in SpecTable
FlatBets == {100}               \* the same, in SpecLong and SpecCrowd
BetAmounts == {-100, 100, 10000, 20000}   \* answers to the bet prompt
SideAmounts == {0, 10, 20000}   \* answers to the side bet amount prompts
Tokens == {"h", "s", "d", "sp", "x"}     \* answers to the action prompt
ShuffleKinds == {"high", "low", "paired"} \* outcomes of random.shuffle

----------------------------------------------------------------------------
(* Cards and the deck *)

suits == <<"Diamonds", "Spades", "Clubs", "Hearts">>

RankNames == <<"2", "3", "4", "5", "6", "7", "8", "9", "10",
               "Jack", "Queen", "King", "Ace">>

AceValue == <<1, 11>>

ranks ==
    [r \in {RankNames[i] : i \in 1..Len(RankNames)} |->
        CASE r = "2" -> 2 [] r = "3" -> 3 [] r = "4" -> 4 [] r = "5" -> 5
          [] r = "6" -> 6 [] r = "7" -> 7 [] r = "8" -> 8 [] r = "9" -> 9
          [] r = "10" -> 10 [] r = "Jack" -> 10 [] r = "Queen" -> 10
          [] r = "King" -> 10 [] r = "Ace" -> AceValue]

Cards(suit, rank) == [suit |-> suit, rank |-> rank]

\* isinstance(card.value, list): only the Ace's value is a list
IsList(card) == card.rank = "Ace"

\* a function on 1..n as the sequence of its values
AsList(f) == f \o <<>>

\* suit-major, ranks in the order of the dict: the list comprehension's order
CreateDeck ==
    AsList([i \in 1..(Len(suits) * Len(RankNames)) |->
               Cards(suits[((i - 1) \div Len(RankNames)) + 1],
                     RankNames[((i - 1) % Len(RankNames)) + 1])])

AllCards == {CreateDeck[i] : i \in 1..Len(CreateDeck)}

Count(s, c) == Cardinality({i \in 1..Len(s) : s[i] = c})

SuitIdx(c) == CHOOSE i \in 1..Len(suits) : suits[i] = c.suit
RankIdx(c) == CHOOSE i \in 1..Len(RankNames) : RankNames[i] = c.rank

\* The place 0..51 a card takes in an arrangement; the highest is dealt first.
\*   high:   Aces, Kings, Queens, ... down to the 2s
\*   low:    2s, 3s, ... up to the Aces
\*   paired: 8H 8C 9H 9C 8S 8D 9S 9D, then 6s and 7s, 4s and 5s, 2s and 3s,
\*           10s and Jacks, Queens and Kings in the same pattern, then Aces
Place(k, c) ==
    LET r  == RankIdx(c) - 1
        u  == SuitIdx(c) - 1
        n  == Len(suits) * Len(RankNames)
        hi == r * Len(suits) + u
        turn == IF r = Len(RankNames) - 1
                THEN (n - Len(suits)) + (Len(suits) - 1 - u)
                ELSE 8 * ((9 - (r \div 2)) % 6)
                     + 4 * (IF u >= 2 THEN 0 ELSE 1)
                     + 2 * (r % 2)
                     + (IF u \in {1, 3} THEN 0 ELSE 1)
    IN  CASE k = "high" -> hi
          [] k = "low" -> (n - 1) - hi
          [] OTHER -> (n - 1) - turn

\* random.shuffle(self.cards) with outcome k: the cards in the order of their
\* places under k, a permutation of them
shuffle(cards, k) ==
    LET n == Len(cards)
        key == AsList([i \in 1..n |-> Place(k, cards[i])])
        pos == AsList([i \in 1..n |->
                  Cardinality({j \in 1..n : \/ key[j] < key[i]
                                            \/ key[j] = key[i] /\ j < i}) + 1])
    IN  AsList([p \in 1..n |-> cards[CHOOSE i \in 1..n : pos[i] = p]])

\* dealcards taking two cards off the deck for the one it returns
dealcards_popTwo(cards) ==
    IF Len(cards) = 0
    THEN [raised |-> TRUE, cards |-> cards]
    ELSE [raised |-> FALSE, card |-> cards[Len(cards)],
          cards |-> SubSeq(cards, 1, Len(cards) - 2)]

\* Deck.dealcards: pops the last card, raises on an empty deck
dealcards(cards) ==
    IF Len(cards) = 0
    THEN [raised |-> TRUE, cards |-> cards]
    ELSE [raised |-> FALSE, card |-> cards[Len(cards)],
          cards |-> SubSeq(cards, 1, Len(cards) - 1)]

\* Deck.add_additional_deck with shuffle outcome k
add_additional_deck(cards, orig, k) ==
    [cards |-> shuffle(cards \o CreateDeck, k),
     original_cards |-> orig \o CreateDeck]

\* Deck.__len__
DeckLen(cards) == Len(cards)

----------------------------------------------------------------------------
(* Hand valuation *)

RECURSIVE SumEleven(_)
SumEleven(h) ==
    IF h = <<>> THEN 0
    ELSE (IF IsList(h[1]) THEN 11 ELSE ranks[h[1].rank]) + SumEleven(Tail(h))

RECURSIVE CountAces(_)
CountAces(h) ==
    IF h = <<>> THEN 0
    ELSE (IF IsList(h[1]) THEN 1 ELSE 0) + CountAces(Tail(h))

RECURSIVE ReduceAces(_, _)
ReduceAces(t, aces) ==
    IF t > 21 /\ aces > 0 THEN ReduceAces(t - 10, aces - 1) ELSE t

\* calculate_total with an if in place of the while: one Ace is recounted
calculate_total_oneAce(h) ==
    IF SumEleven(h) > 21 /\ CountAces(h) > 0
    THEN SumEleven(h) - 10 ELSE SumEleven(h)

\* Player.calculate_total
calculate_total(h) == ReduceAces(SumEleven(h), CountAces(h))

\* Player.add_card: the new hand and its stored total
add_card(h, card) ==
    LET h2 == Append(h, card)
    IN  [hand |-> h2, total |-> calculate_total(h2)]

----------------------------------------------------------------------------
(* Money *)

StartBalance == 10000

\* bet_amount debiting before it tests the balance
bet_amount_debitFirst(bal, amount) ==
    IF amount > bal
    THEN [raised |-> TRUE, balance |-> bal - amount]
    ELSE [raised |-> FALSE, balance |-> bal - amount, amount |-> amount]

\* Money.bet_amount
bet_amount(bal, amount) ==
    IF amount > bal
    THEN [raised |-> TRUE, balance |-> bal]
    ELSE [raised |-> FALSE, balance |-> bal - amount, amount |-> amount]

\* Money.win_bet
win_bet(bal, amount) == bal + amount * 2

\* Money.lose_bet
lose_bet(bal) == bal

\* Player.place_bet: current_bet is assigned only when bet_amount returns
place_bet(bal, bet, amount) ==
    LET r == bet_amount(bal, amount)
    IN  [raised |-> r.raised, balance |-> r.balance,
         current_bet |-> IF r.raised THEN bet ELSE r.amount]

----------------------------------------------------------------------------
(* The dictionary of side bets *)

SideKinds == <<"dealer_bust", "mixed_pair", "same_pair">>

EmptyDict == [x \in {} |-> 0]

SetKey(d, k, v) == [x \in (DOMAIN d) \cup {k} |-> IF x = k THEN v ELSE d[x]]

\* the truth value of player.side_bets.get(k): absent (None) and 0 are false
Placed(d, k) == k \in DOMAIN d /\ d[k] # 0

----------------------------------------------------------------------------
(* Settlement *)

\* check_winner testing the dealer's bust before the player's
check_winner_dealerFirst(bal, ptotal, dtotal, bet) ==
    IF dtotal > 21 \/ (ptotal <= 21 /\ ptotal > dtotal)
    THEN [balance |-> win_bet(bal, bet), result |-> "win"]
    ELSE IF ptotal > 21 \/ ptotal < dtotal
    THEN [balance |-> lose_bet(bal), result |-> "loss"]
    ELSE [balance |-> bal + bet, result |-> "push"]

\* check_winner crediting a win a second time
check_winner_paidTwice(bal, ptotal, dtotal, bet) ==
    IF ptotal > 21
    THEN [balance |-> lose_bet(bal), result |-> "loss"]
    ELSE IF dtotal > 21 \/ ptotal > dtotal
    THEN [balance |-> win_bet(win_bet(bal, bet), bet), result |-> "win"]
    ELSE IF ptotal < dtotal
    THEN [balance |-> lose_bet(bal), result |-> "loss"]
    ELSE [balance |-> bal + bet, result |-> "push"]

\* Game.check_winner: the balance after it and the branch taken
check_winner(bal, ptotal, dtotal, bet) ==
    IF ptotal > 21
    THEN [balance |-> lose_bet(bal), result |-> "loss"]
    ELSE IF dtotal > 21 \/ ptotal > dtotal
    THEN [balance |-> win_bet(bal, bet), result |-> "win"]
    ELSE IF ptotal < dtotal
    THEN [balance |-> lose_bet(bal), result |-> "loss"]
    ELSE [balance |-> bal + bet, result |-> "push"]

\* Game.evaluate_side_bets: the three tests, on player.hand[:2] and the dealer
WinsDealerBust(sb, h, dtotal) == Placed(sb, "dealer_bust") /\ dtotal > 21

WinsMixedPair(sb, h) ==
    Placed(sb, "mixed_pair") /\ h[1].rank = h[2].rank /\ h[1].suit # h[2].suit

WinsSamePair(sb, h) ==
    Placed(sb, "same_pair") /\ h[1].rank = h[2].rank /\ h[1].suit = h[2].suit

evaluate_side_bets(bal, sb, h, dtotal) ==
    LET b1 == IF WinsDealerBust(sb, h, dtotal)
              THEN win_bet(bal, sb["dealer_bust"] * 3) ELSE bal
        b2 == IF WinsMixedPair(sb, h)
              THEN win_bet(b1, sb["mixed_pair"] * 5) ELSE b1
        b3 == IF WinsSamePair(sb, h)
              THEN win_bet(b2, sb["same_pair"] * 12) ELSE b2
    IN  [balance |-> b3,
         printed |-> {k \in {"dealer_bust", "mixed_pair", "same_pair"} :
                        \/ k = "dealer_bust" /\ WinsDealerBust(sb, h, dtotal)
                        \/ k = "mixed_pair" /\ WinsMixedPair(sb, h)
                        \/ k = "same_pair" /\ WinsSamePair(sb, h)}]

\* eliminate_players keeping the players left with exactly nothing
eliminate_players_keepZero(ps, bal) == SelectSeq(ps, LAMBDA p : bal[p] >= 0)

\* Game.eliminate_players
eliminate_players(ps, bal) == SelectSeq(ps, LAMBDA p : bal[p] > 0)

\* check_deck_size leaving the dealer out of the count
DeckTooSmall_noDealer(cards, ps) == DeckLen(cards) < Len(ps) * 2 + 15

\* Game.check_deck_size: whether a deck is added
DeckTooSmall(cards, ps) == DeckLen(cards) < (Len(ps) + 1) * 2 + 15

----------------------------------------------------------------------------
(* Messages the program prints *)

NotEnough == "Not enough balance to place this bet!"
DeckEmpty == "Deck is empty, cannot deal any more cards."
InvalidInput == "Invalid input"
Busted == "busted"

----------------------------------------------------------------------------
(* The state machine *)

Me == players[cur]

\* Game.__init__: a dealer, no players, a shuffled deck of 52
Init ==
    /\ \E k \in ShuffleKinds : deck = shuffle(CreateDeck, k)
    /\ original_cards = CreateDeck
    /\ players = <<>>
    /\ dealer = [hand |-> <<>>, total |-> 0]
    /\ balance = <<>> /\ hand = <<>> /\ total = <<>>
    /\ current_bet = <<>> /\ side_bets = <<>>
    /\ pc = "add_players" /\ cur = 1 /\ kind = 1
    /\ stack = <<>> /\ round = 0 /\ out = {}
    /\ dealt = EmptyBag
    /\ firstTwo = <<>> /\ staked = <<>> /\ mainNet = <<>>

\* Game.add_players, with the answer n to "How many players are playing?"
add_players(counts) ==
    /\ pc = "add_players"
    /\ \E n \in counts :
        /\ players' = [i \in 1..n |-> i]
        /\ balance' = [i \in 1..n |-> StartBalance]
        /\ hand' = [i \in 1..n |-> <<>>]
        /\ total' = [i \in 1..n |-> 0]
        /\ current_bet' = [i \in 1..n |-> 0]
        /\ side_bets' = [i \in 1..n |-> EmptyDict]
        /\ firstTwo' = [i \in 1..n |-> <<>>]
        /\ staked' = [i \in 1..n |-> 0]
        /\ mainNet' = [i \in 1..n |-> 0]
    /\ pc' = "loop"
    /\ out' = {}
    /\ UNCHANGED <<deck, original_cards, dealer, cur, kind, stack, round, dealt>>

\* Game.play: the test of the while loop and eliminate_players at its top;
\* when the test fails, the eliminate_players after the loop
LoopHead ==
    /\ pc = "loop"
    /\ players' = eliminate_players(players, balance)
    /\ IF \E i \in 1..Len(players) : balance[players[i]] > 0
       THEN /\ pc' = "bet" /\ cur' = 1 /\ round' = round + 1
            /\ staked' = [p \in DOMAIN staked |-> 0]
            /\ mainNet' = [p \in DOMAIN mainNet |-> 0]
       ELSE /\ pc' = "done"
            /\ UNCHANGED <<cur, round, staked, mainNet>>
    /\ out' = {}
    /\ UNCHANGED <<deck, original_cards, dealer, balance, hand, total,
                   current_bet, side_bets, kind, stack, dealt, firstTwo>>

\* the betting loop left after its first player: the deal begins at once
AfterSideBets_dealAtOnce == kind' = 1 /\ cur' = 1 /\ pc' = "check_deck"

\* where the betting loop goes after a player's last side bet
AfterSideBets ==
    /\ kind' = 1
    /\ IF cur < Len(players)
       THEN cur' = cur + 1 /\ pc' = "bet"
       ELSE cur' = 1 /\ pc' = "check_deck"

NextSideBet ==
    IF kind < Len(SideKinds)
    THEN kind' = kind + 1 /\ pc' = "side_ask" /\ cur' = cur
    ELSE AfterSideBets

\* Game.play: one answer to "how much would you like to bet?"
MainBet(amounts) ==
    /\ pc = "bet"
    /\ \E a \in amounts :
        LET r == place_bet(balance[Me], current_bet[Me], a) IN
        /\ balance' = [balance EXCEPT ![Me] = r.balance]
        /\ current_bet' = [current_bet EXCEPT ![Me] = r.current_bet]
        /\ mainNet' = [mainNet EXCEPT ![Me] = @ + r.balance - balance[Me]]
        /\ IF r.raised
           THEN /\ out' = {NotEnough}
                /\ UNCHANGED <<pc, kind, staked>>
           ELSE /\ out' = {}
                /\ pc' = "side_ask" /\ kind' = 1
                /\ staked' = [staked EXCEPT ![Me] = @ + a]
    /\ UNCHANGED <<deck, original_cards, players, dealer, hand, total,
                   side_bets, cur, stack, round, dealt, firstTwo>>

\* Game.request_side_bets: the answer N to one of its three questions
SideBetNo ==
    /\ pc = "side_ask"
    /\ side_bets' = [side_bets EXCEPT ![Me] = SetKey(@, SideKinds[kind], 0)]
    /\ NextSideBet
    /\ out' = {}
    /\ UNCHANGED <<deck, original_cards, players, dealer, balance, hand, total,
                   current_bet, stack, round, dealt, firstTwo, staked, mainNet>>

\* Game.request_side_bets: the answer Y
SideBetYes ==
    /\ pc = "side_ask"
    /\ pc' = "side_amt"
    /\ out' = {}
    /\ UNCHANGED <<deck, original_cards, players, dealer, balance, hand, total,
                   current_bet, side_bets, cur, kind, stack, round, dealt,
                   firstTwo, staked, mainNet>>

\* Game.request_side_bets: one answer to "Enter the amount to bet on ..."
SideBetAmount(amounts) ==
    /\ pc = "side_amt"
    /\ \E a \in amounts :
        LET r == bet_amount(balance[Me], a) IN
        /\ balance' = [balance EXCEPT ![Me] = r.balance]
        /\ IF r.raised
           THEN /\ out' = {NotEnough}
                /\ UNCHANGED <<side_bets, pc, cur, kind>>
           ELSE /\ out' = {}
                /\ side_bets' =
                     [side_bets EXCEPT ![Me] = SetKey(@, SideKinds[kind], a)]
                /\ NextSideBet
    /\ UNCHANGED <<deck, original_cards, players, dealer, hand, total,
                   current_bet, stack, round, dealt, firstTwo, staked, mainNet>>

\* the program ends with an uncaught ValueError of dealcards
Crash == pc' = "crashed" /\ out' = {DeckEmpty}

Gave(c) == dealt (+) SetToBag({c})

\* Game.check_deck_size, the first statement of start_round
CheckDeckSize ==
    /\ pc = "check_deck"
    /\ IF DeckTooSmall(deck, players)
       THEN \E k \in ShuffleKinds :
              LET r == add_additional_deck(deck, original_cards, k) IN
              deck' = r.cards /\ original_cards' = r.original_cards
       ELSE UNCHANGED <<deck, original_cards>>
    /\ pc' = "deal" /\ cur' = 1
    /\ out' = {}
    /\ UNCHANGED <<players, dealer, balance, hand, total, current_bet,
                   side_bets, kind, stack, round, dealt, firstTwo, staked,
                   mainNet>>

\* Game.start_round: the two cards of one player
DealPlayer ==
    /\ pc = "deal" /\ cur <= Len(players)
    /\ LET r1 == dealcards(deck) IN
       IF r1.raised
       THEN Crash /\ UNCHANGED <<deck, hand, total, dealt, firstTwo, cur>>
       ELSE LET a1 == add_card(hand[Me], r1.card)
                r2 == dealcards(r1.cards) IN
            IF r2.raised
            THEN /\ Crash
                 /\ deck' = r1.cards /\ dealt' = Gave(r1.card)
                 /\ hand' = [hand EXCEPT ![Me] = a1.hand]
                 /\ total' = [total EXCEPT ![Me] = a1.total]
                 /\ UNCHANGED <<firstTwo, cur>>
            ELSE LET a2 == add_card(a1.hand, r2.card) IN
                 /\ deck' = r2.cards
                 /\ dealt' = Gave(r1.card) (+) SetToBag({r2.card})
                 /\ hand' = [hand EXCEPT ![Me] = a2.hand]
                 /\ total' = [total EXCEPT ![Me] = a2.total]
                 /\ firstTwo' = [firstTwo EXCEPT ![Me] = <<r1.card, r2.card>>]
                 /\ cur' = cur + 1
                 /\ out' = {}
                 /\ UNCHANGED pc
    /\ UNCHANGED <<original_cards, players, dealer, balance, current_bet,
                   side_bets, kind, stack, round, staked, mainNet>>

\* Game.start_round: the two cards of the dealer
DealDealer ==
    /\ pc = "deal" /\ cur = Len(players) + 1
    /\ LET r1 == dealcards(deck) IN
       IF r1.raised
       THEN Crash /\ UNCHANGED <<deck, dealer, dealt, cur>>
       ELSE LET a1 == add_card(dealer.hand, r1.card)
                r2 == dealcards(r1.cards) IN
            IF r2.raised
            THEN /\ Crash
                 /\ deck' = r1.cards /\ dealt' = Gave(r1.card)
                 /\ dealer' = [hand |-> a1.hand, total |-> a1.total]
                 /\ UNCHANGED cur
            ELSE LET a2 == add_card(a1.hand, r2.card) IN
                 /\ deck' = r2.cards
                 /\ dealt' = Gave(r1.card) (+) SetToBag({r2.card})
                 /\ dealer' = [hand |-> a2.hand, total |-> a2.total]
                 /\ pc' = "turn" /\ cur' = 1
                 /\ out' = {}
    /\ UNCHANGED <<original_cards, players, balance, hand, total, current_bet,
                   side_bets, kind, stack, round, firstTwo, staked, mainNet>>

----------------------------------------------------------------------------
(* Game.player_turn and Game.split_hand *)

\* the calls of split_hand that have played both hands return with it
RECURSIVE PopDone(_)
PopDone(s) ==
    IF s # <<>> /\ s[Len(s)].i = 2 THEN PopDone(SubSeq(s, 1, Len(s) - 1)) ELSE s

\* player_turn returns, the deck being d, the hand h with total t, the cards
\* given so far g: either the turn of the player is over, or the split_hand
\* that called it goes on with its second hand
Return(d, h, t, g, printed) ==
    LET s == PopDone(stack) IN
    IF s = <<>>
    THEN /\ deck' = d /\ dealt' = g
         /\ hand' = [hand EXCEPT ![Me] = h]
         /\ total' = [total EXCEPT ![Me] = t]
         /\ stack' = <<>>
         /\ out' = printed
         /\ IF cur < Len(players)
            THEN cur' = cur + 1 /\ pc' = "turn"
            ELSE cur' = 1 /\ pc' = "dealer"
    ELSE LET second == s[Len(s)].card2
             r == dealcards(d) IN
         IF r.raised
         THEN /\ Crash
              /\ deck' = d /\ dealt' = g
              /\ hand' = [hand EXCEPT ![Me] = <<second>>]
              /\ total' = [total EXCEPT ![Me] = t]
              /\ stack' = s
              /\ UNCHANGED cur
         ELSE LET a == add_card(<<second>>, r.card) IN
              /\ deck' = r.cards /\ dealt' = g (+) SetToBag({r.card})
              /\ hand' = [hand EXCEPT ![Me] = a.hand]
              /\ total' = [total EXCEPT ![Me] = a.total]
              /\ stack' = [s EXCEPT ![Len(s)].i = 2]
              /\ out' = printed
              /\ UNCHANGED <<pc, cur>>

\* the test of the double down branch letting a hand that was hit through
CanDouble_afterHit == Len(hand[Me]) >= 2

\* player_turn: the test on the hand of its double down branch
CanDouble == Len(hand[Me]) = 2

CanSplit == Len(hand[Me]) = 2 /\ hand[Me][1].rank = hand[Me][2].rank

\* the answer d on a hand of two cards
DoubleDown ==
    /\ pc = "turn" /\ CanDouble
    /\ LET b == place_bet(balance[Me], current_bet[Me], current_bet[Me])
           r == dealcards(deck) IN
       /\ balance' = [balance EXCEPT ![Me] = b.balance]
       /\ current_bet' = [current_bet EXCEPT ![Me] = b.current_bet]
       /\ mainNet' = [mainNet EXCEPT ![Me] = @ + b.balance - balance[Me]]
       /\ IF b.raised
          THEN /\ out' = {NotEnough}
               /\ UNCHANGED <<deck, hand, total, pc, cur, stack, dealt, staked>>
          ELSE /\ staked' = [staked EXCEPT ![Me] = @ + current_bet[Me]]
               /\ IF r.raised
                  THEN /\ out' = {DeckEmpty}
                       /\ UNCHANGED <<deck, hand, total, pc, cur, stack, dealt>>
                  ELSE LET a == add_card(hand[Me], r.card) IN
                       Return(r.cards, a.hand, a.total, Gave(r.card), {})
    /\ UNCHANGED <<original_cards, players, dealer, side_bets, kind, round,
                   firstTwo>>

\* the answer sp on two cards of one rank: split_hand up to the prompt of
\* the player_turn it calls for its first hand
Split ==
    /\ pc = "turn" /\ CanSplit
    /\ Len(stack) < MaxSplitDepth
    /\ LET r == dealcards(deck) IN
       IF r.raised
       THEN /\ Crash
            /\ hand' = [hand EXCEPT ![Me] = <<hand[Me][1]>>]
            /\ UNCHANGED <<deck, total, stack, dealt>>
       ELSE LET a == add_card(<<hand[Me][1]>>, r.card) IN
            /\ deck' = r.cards /\ dealt' = Gave(r.card)
            /\ hand' = [hand EXCEPT ![Me] = a.hand]
            /\ total' = [total EXCEPT ![Me] = a.total]
            /\ stack' = Append(stack, [i |-> 1, card2 |-> hand[Me][2]])
            /\ out' = {}
            /\ UNCHANGED pc
    /\ UNCHANGED <<original_cards, players, dealer, balance, current_bet,
                   side_bets, cur, kind, round, firstTwo, staked, mainNet>>

\* the answer h
Hit ==
    /\ pc = "turn"
    /\ LET r == dealcards(deck) IN
       IF r.raised
       THEN Crash /\ UNCHANGED <<deck, hand, total, stack, dealt, cur>>
       ELSE LET a == add_card(hand[Me], r.card) IN
            IF a.total > 21
            THEN Return(r.cards, a.hand, a.total, Gave(r.card), {Busted})
            ELSE /\ deck' = r.cards /\ dealt' = Gave(r.card)
                 /\ hand' = [hand EXCEPT ![Me] = a.hand]
                 /\ total' = [total EXCEPT ![Me] = a.total]
                 /\ out' = {}
                 /\ UNCHANGED <<pc, cur, stack>>
    /\ UNCHANGED <<original_cards, players, dealer, balance, current_bet,
                   side_bets, kind, round, firstTwo, staked, mainNet>>

\* the answer s
Stand ==
    /\ pc = "turn"
    /\ Return(deck, hand[Me], total[Me], dealt, {})
    /\ UNCHANGED <<original_cards, players, dealer, balance, current_bet,
                   side_bets, kind, round, firstTwo, staked, mainNet>>

\* an answer no branch of player_turn takes
Rejected(tok) ==
    \/ tok \notin {"h", "s", "d", "sp"}
    \/ tok = "d" /\ ~CanDouble
    \/ tok = "sp" /\ ~CanSplit

Invalid ==
    /\ pc = "turn"
    /\ \E tok \in Tokens : Rejected(tok)
    /\ out' = {InvalidInput}
    /\ UNCHANGED <<deck, original_cards, players, dealer, balance, hand, total,
                   current_bet, side_bets, pc, cur, kind, stack, round, dealt,
                   firstTwo, staked, mainNet>>

----------------------------------------------------------------------------
(* Dealer, settlement, the next round *)

\* the test of dealer_turn's loop taken one total higher: a draw on 17
DealerMustDraw_onSeventeen(t) == t < 18

\* Game.dealer_turn: the test of its while loop
DealerMustDraw(t) == t < 17

\* Game.dealer_turn: one pass of its loop
DealerDraw ==
    /\ pc = "dealer" /\ DealerMustDraw(dealer.total)
    /\ LET r == dealcards(deck) IN
       IF r.raised
       THEN Crash /\ UNCHANGED <<deck, dealer, dealt>>
       ELSE LET a == add_card(dealer.hand, r.card) IN
            /\ deck' = r.cards /\ dealt' = Gave(r.card)
            /\ dealer' = [hand |-> a.hand, total |-> a.total]
            /\ out' = {}
            /\ UNCHANGED pc
    /\ UNCHANGED <<original_cards, players, balance, hand, total, current_bet,
                   side_bets, cur, kind, stack, round, firstTwo, staked,
                   mainNet>>

\* Game.dealer_turn: the loop ends
DealerStand ==
    /\ pc = "dealer" /\ ~DealerMustDraw(dealer.total)
    /\ pc' = "check_winner" /\ cur' = 1
    /\ out' = {}
    /\ UNCHANGED <<deck, original_cards, players, dealer, balance, hand, total,
                   current_bet, side_bets, kind, stack, round, dealt, firstTwo,
                   staked, mainNet>>

\* Game.play: check_winner(player)
CheckWinner ==
    /\ pc = "check_winner"
    /\ LET r == check_winner(balance[Me], total[Me], dealer.total,
                             current_bet[Me]) IN
       /\ balance' = [balance EXCEPT ![Me] = r.balance]
       /\ mainNet' = [mainNet EXCEPT ![Me] = @ + r.balance - balance[Me]]
       /\ out' = {r.result}
    /\ pc' = "side_eval"
    /\ UNCHANGED <<deck, original_cards, players, dealer, hand, total,
                   current_bet, side_bets, cur, kind, stack, round, dealt,
                   firstTwo, staked>>

\* Game.play: evaluate_side_bets(player)
EvaluateSideBets ==
    /\ pc = "side_eval"
    /\ LET r == evaluate_side_bets(balance[Me], side_bets[Me], hand[Me],
                                   dealer.total) IN
       /\ balance' = [balance EXCEPT ![Me] = r.balance]
       /\ out' = r.printed
    /\ IF cur < Len(players)
       THEN cur' = cur + 1 /\ pc' = "check_winner"
       ELSE cur' = 1 /\ pc' = "continue"
    /\ UNCHANGED <<deck, original_cards, players, dealer, hand, total,
                   current_bet, side_bets, kind, stack, round, dealt, firstTwo,
                   staked, mainNet>>

\* Game.play: the answer y to "Do you want to play another round?"
PlayAgain(rounds) ==
    /\ pc = "continue" /\ round < rounds
    /\ pc' = "loop"
    /\ out' = {}
    /\ UNCHANGED <<deck, original_cards, players, dealer, balance, hand, total,
                   current_bet, side_bets, cur, kind, stack, round, dealt,
                   firstTwo, staked, mainNet>>

\* Game.play: any other answer, and the eliminate_players after the loop
Quit ==
    /\ pc = "continue"
    /\ players' = eliminate_players(players, balance)
    /\ pc' = "done"
    /\ out' = {}
    /\ UNCHANGED <<deck, original_cards, dealer, balance, hand, total,
                   current_bet, side_bets, cur, kind, stack, round, dealt,
                   firstTwo, staked, mainNet>>

Next ==
    \/ add_players(PlayerCounts)
    \/ LoopHead
    \/ MainBet(BetAmounts)
    \/ SideBetNo
    \/ SideBetYes
    \/ SideBetAmount(SideAmounts)
    \/ CheckDeckSize
    \/ DealPlayer
    \/ DealDealer
    \/ DoubleDown
    \/ Split
    \/ Hit
    \/ Stand
    \/ Invalid
    \/ DealerDraw
    \/ DealerStand
    \/ CheckWinner
    \/ EvaluateSideBets
    \/ PlayAgain(MaxRounds)
    \/ Quit

Spec == Init /\ [][Next]_vars

----------------------------------------------------------------------------
(* Other sessions of the same program *)

\* Two players who place no side bets.
NextTable ==
    \/ add_players(TableCounts)
    \/ LoopHead
    \/ MainBet(TableBets)
    \/ SideBetNo
    \/ CheckDeckSize
    \/ DealPlayer
    \/ DealDealer
    \/ DoubleDown
    \/ Split
    \/ Hit
    \/ Stand
    \/ Invalid
    \/ DealerDraw
    \/ DealerStand
    \/ CheckWinner
    \/ EvaluateSideBets
    \/ PlayAgain(MaxRounds)
    \/ Quit

SpecTable == Init /\ [][NextTable]_vars

\* One player who bets the same amount every round and places no side bets,
\* over the rounds it takes to use up a deck.
NextLong ==
    \/ add_players(PlayerCounts)
    \/ LoopHead
    \/ MainBet(FlatBets)
    \/ SideBetNo
    \/ CheckDeckSize
    \/ DealPlayer
    \/ DealDealer
    \/ DoubleDown
    \/ Split
    \/ Hit
    \/ Stand
    \/ DealerDraw
    \/ DealerStand
    \/ CheckWinner
    \/ EvaluateSideBets
    \/ PlayAgain(MaxLongRounds)
    \/ Quit

SpecLong == Init /\ [][NextLong]_vars

\* A full table whose players all hit until they bust.
NextCrowd ==
    \/ add_players(CrowdCounts)
    \/ LoopHead
    \/ MainBet(FlatBets)
    \/ SideBetNo
    \/ CheckDeckSize
    \/ DealPlayer
    \/ DealDealer
    \/ Hit

SpecCrowd == Init /\ [][NextCrowd]_vars

\* A full table whose players split their pairs and hit until they bust.
NextCrowdSplit ==
    \/ add_players(CrowdCounts)
    \/ LoopHead
    \/ MainBet(FlatBets)
    \/ SideBetNo
    \/ CheckDeckSize
    \/ DealPlayer
    \/ DealDealer
    \/ Split
    \/ Hit

SpecCrowdSplit == Init /\ [][NextCrowdSplit]_vars

\* Hands built card by card: add_card on every sequence of up to MaxHandLen
\* cards of one suit (the suit plays no part in the total).
HandCards == {c \in AllCards : c.suit = suits[1]}

InitHand ==
    /\ deck = shuffle(CreateDeck, "high")
    /\ original_cards = CreateDeck
    /\ players = <<1>>
    /\ dealer = [hand |-> <<>>, total |-> 0]
    /\ balance = <<StartBalance>> /\ hand = << <<>> >> /\ total = <<0>>
    /\ current_bet = <<0>> /\ side_bets = <<EmptyDict>>
    /\ pc = "add_card" /\ cur = 1 /\ kind = 1
    /\ stack = <<>> /\ round = 0 /\ out = {}
    /\ dealt = EmptyBag
    /\ firstTwo = << <<>> >> /\ staked = <<0>> /\ mainNet = <<0>>

AddCard ==
    /\ pc = "add_card"
    /\ Len(hand[Me]) < MaxHandLen
    /\ \E c \in HandCards :
        LET a == add_card(hand[Me], c) IN
        /\ hand' = [hand EXCEPT ![Me] = a.hand]
        /\ total' = [total EXCEPT ![Me] = a.total]
    /\ UNCHANGED <<deck, original_cards, players, dealer, balance, current_bet,
                   side_bets, pc, cur, kind, stack, round, out, dealt,
                   firstTwo, staked, mainNet>>

SpecHand == InitHand /\ [][AddCard]_vars

\* One player who hits or stands; the dealer's turn asks for no input, so
\* the program goes on through it by itself.
NextDealer ==
    \/ add_players(PlayerCounts)
    \/ LoopHead
    \/ MainBet(FlatBets)
    \/ SideBetNo
    \/ CheckDeckSize
    \/ DealPlayer
    \/ DealDealer
    \/ Hit
    \/ Stand
    \/ DealerDraw
    \/ DealerStand
    \/ CheckWinner
    \/ EvaluateSideBets
    \/ PlayAgain(MaxRounds)
    \/ Quit

SpecDealer ==
    Init /\ [][NextDealer]_vars /\ WF_vars(DealerDraw) /\ WF_vars(DealerStand)

----------------------------------------------------------------------------
(* Steps of the program, as predicates on a pair of states *)

\* check_winner has just run for the player at cur
Settled == pc = "side_eval"

CheckWinnerStep == pc = "check_winner" /\ pc' = "side_eval"

EvaluateStep == pc = "side_eval" /\ pc' # "side_eval"

Credit == balance'[Me] - balance[Me]

----------------------------------------------------------------------------
(* C1: check_winner follows the decision table on the two totals: a player
   over 21 loses and is credited nothing, even when the dealer is over 21
   too; otherwise a dealer over 21 or a higher player total is a win
   credited twice current_bet; otherwise a lower player total is a loss
   credited nothing; otherwise equal totals are a push credited exactly
   current_bet. *)
C1_DecisionTable ==
    [][CheckWinnerStep =>
        LET pt == total[Me]
            dt == dealer.total
            bet == current_bet[Me]
        IN  /\ pt > 21 => Credit = 0 /\ out' = {"loss"}
            /\ pt <= 21 /\ (dt > 21 \/ pt > dt) =>
                   Credit = 2 * bet /\ out' = {"win"}
            /\ pt <= 21 /\ dt <= 21 /\ pt < dt => Credit = 0 /\ out' = {"loss"}
            /\ pt <= 21 /\ dt <= 21 /\ pt = dt =>
                   Credit = bet /\ out' = {"push"}]_vars

\* a player over 21 has been settled against a dealer over 21
C1_Witness ==
    /\ Settled /\ out = {"loss"}
    /\ total[Me] > 21 /\ dealer.total > 21
    /\ current_bet[Me] > 0

----------------------------------------------------------------------------
(* C2: measured from just before the main bet to just after check_winner,
   and leaving side bets out, the balance has moved by +S on a win, 0 on a
   push and -S on a loss, S being all that was debited for the main bet in
   the round (the bet, and the bet again after a double down). *)
C2_NetOfStake ==
    Settled =>
        /\ out = {"win"} => mainNet[Me] = staked[Me]
        /\ out = {"push"} => mainNet[Me] = 0
        /\ out = {"loss"} => mainNet[Me] = 0 - staked[Me]

----------------------------------------------------------------------------
(* C3: a side bet of amount A that wins leaves the player multiplier x A
   above the balance from before the side bet was placed, that is, it is
   credited A + multiplier x A, with multipliers 3, 5 and 12. *)
Multiplier(k) ==
    CASE k = "dealer_bust" -> 3 [] k = "mixed_pair" -> 5 [] k = "same_pair" -> 12

ClaimedCredit(k, paid, sb) ==
    IF k \in paid THEN sb[k] + Multiplier(k) * sb[k] ELSE 0

C3_SideBetGain ==
    [][EvaluateStep =>
        Credit = ClaimedCredit("dealer_bust", out', side_bets[Me])
                 + ClaimedCredit("mixed_pair", out', side_bets[Me])
                 + ClaimedCredit("same_pair", out', side_bets[Me])]_vars

----------------------------------------------------------------------------
(* C4: a placed side bet is paid exactly when its condition holds of the
   two cards start_round dealt to the player in this round (Mixed-Pair: one
   rank, two suits; Same-Pair: one rank, one suit) or of the dealer's total
   (Dealer-Bust: over 21); a side bet of 0 is never paid. *)
DueOnFirstTwo(k, two, dtotal) ==
    CASE k = "dealer_bust" -> dtotal > 21
      [] k = "mixed_pair" -> two[1].rank = two[2].rank /\ two[1].suit # two[2].suit
      [] k = "same_pair" -> two[1].rank = two[2].rank /\ two[1].suit = two[2].suit

C4_PaidOnDealtPair ==
    [][EvaluateStep =>
        \A i \in 1..Len(SideKinds) :
            LET k == SideKinds[i] IN
            k \in out' <=> /\ Placed(side_bets[Me], k)
                           /\ DueOnFirstTwo(k, firstTwo[Me], dealer.total)]_vars

----------------------------------------------------------------------------
(* C5: a main bet, a side bet or the extra stake of a double down above the
   balance is refused with the insufficient-balance message and changes
   nothing: balance, current_bet, side_bets, hand, total and deck stay as
   they were and the same player is at the same prompt. *)
RefusedMainBet ==
    \E a \in BetAmounts : a > balance[Me] /\ MainBet({a})

RefusedSideBet ==
    \E a \in SideAmounts : a > balance[Me] /\ SideBetAmount({a})

RefusedDouble == current_bet[Me] > balance[Me] /\ DoubleDown

C5_RefusedBetChangesNothing ==
    [][(pc \in {"bet", "side_amt", "turn"}
        /\ (RefusedMainBet \/ RefusedSideBet \/ RefusedDouble)) =>
            /\ out' = {NotEnough}
            /\ UNCHANGED <<balance, current_bet, side_bets, hand, total, deck,
                           dealer, players, pc, cur, kind, stack>>]_vars

\* a double down has just been refused
C5_Witness ==
    /\ pc = "turn" /\ out = {NotEnough}
    /\ Len(hand[Me]) = 2 /\ current_bet[Me] > balance[Me]

----------------------------------------------------------------------------
(* C6: in every state every balance, every current_bet and every side bet
   amount is at least 0. *)
C6_NothingNegative ==
    \A p \in DOMAIN balance :
        /\ balance[p] >= 0
        /\ current_bet[p] >= 0
        /\ \A k \in DOMAIN side_bets[p] : side_bets[p][k] >= 0

----------------------------------------------------------------------------
(* C7: dealcards never raises the empty-deck error, whatever the number of
   players and whatever they do: not in the initial deal, a hit, a double
   down, a split or a dealer draw. *)
C7_NeverDealsFromEmptyDeck == DeckEmpty \notin out /\ pc # "crashed"

----------------------------------------------------------------------------
(* C8: at the start of a round, before any card of the round is dealt, a
   deck of fewer than (active players + 1) * 2 + 15 cards gets exactly one
   fresh set of 52 cards and so grows by exactly 52, and any other deck is
   left as it is; at no other point is the deck replenished. *)
FreshSetAdded ==
    /\ Len(deck') = Len(deck) + Len(CreateDeck)
    /\ \A c \in AllCards : Count(deck', c) = Count(deck, c) + 1
    /\ original_cards' = original_cards \o CreateDeck

C8_Replenishment ==
    [][/\ pc = "check_deck" =>
            /\ dealt' = dealt
            /\ IF Len(deck) < (Len(players) + 1) * 2 + 15
               THEN FreshSetAdded
               ELSE deck' = deck /\ original_cards' = original_cards
       /\ pc # "check_deck" =>
            /\ Len(deck') <= Len(deck)
            /\ original_cards' = original_cards]_vars

\* a round starts on a deck that has just been replenished
C8_Witness ==
    /\ pc = "deal" /\ cur = 1
    /\ Len(original_cards) = 2 * Len(CreateDeck)
    /\ Len(deck) >= Len(CreateDeck)
    /\ Len(deck) < Len(CreateDeck) + (Len(players) + 1) * 2 + 15

----------------------------------------------------------------------------
(* C9: the cards left in the deck together with the cards dealt so far are,
   as a multiset, the cards ever created: the first 52 and 52 for each
   replenishment.  So a deal takes exactly one card off the deck and a
   shuffle neither adds, removes nor duplicates a card. *)
C9_CardConservation ==
    /\ \A i \in 1..Len(original_cards) :
          original_cards[i] = CreateDeck[((i - 1) % Len(CreateDeck)) + 1]
    /\ \A c \in AllCards :
          Count(deck, c) + CopiesIn(c, dealt)
              = Len(original_cards) \div Len(CreateDeck)
    /\ Len(deck) + BagCardinality(dealt) = Len(original_cards)

\* cards have been dealt from a deck shuffled together with a second set
C9_Witness ==
    /\ Len(original_cards) = 2 * Len(CreateDeck)
    /\ pc = "check_winner"
    /\ \E c \in AllCards : CopiesIn(c, dealt) = 2

----------------------------------------------------------------------------
(* C10: calculate_total gives the largest total of at most 21 that counting
   each Ace as 1 or as 11 can give, and the total with every Ace as 1 when
   there is none; the order of the cards plays no part; after add_card the
   stored total is that value of the hand. *)
RECURSIVE FixedSum(_)
FixedSum(h) ==
    IF h = <<>> THEN 0
    ELSE (IF h[1].rank = "Ace" THEN 0 ELSE ranks[h[1].rank]) + FixedSum(Tail(h))

Aces(h) == Cardinality({i \in 1..Len(h) : h[i].rank = "Ace"})

Totals(h) == {FixedSum(h) + (Aces(h) - n) + 11 * n : n \in 0..Aces(h)}

BestTotal(h) ==
    IF \E t \in Totals(h) : t <= 21
    THEN CHOOSE t \in Totals(h) : t <= 21 /\ \A u \in Totals(h) : u <= 21 => u <= t
    ELSE FixedSum(h) + Aces(h)

Reversed(h) == [i \in 1..Len(h) |-> h[Len(h) + 1 - i]]

C10_BestTotal ==
    \A p \in DOMAIN hand :
        /\ total[p] = BestTotal(hand[p])
        /\ calculate_total(Reversed(hand[p])) = total[p]

\* four Aces are held, and count 14
C10_Witness ==
    /\ Len(hand[1]) = 4 /\ Aces(hand[1]) = 4 /\ total[1] = 14

----------------------------------------------------------------------------
(* C11: in the dealer's turn the dealer draws one card at a time exactly
   while the dealer's total is below 17 and never draws on 17 or more; unless
   the deck runs out the turn ends after finitely many draws, and at its end
   the dealer's total is at least 17. *)
DealerTurnStep ==
    /\ dealer.total < 17 =>
          \/ pc' = "crashed" /\ Len(deck) = 0
          \/ /\ pc' = "dealer"
             /\ Len(deck) > 0
             /\ dealer'.hand = Append(dealer.hand, deck[Len(deck)])
             /\ deck' = SubSeq(deck, 1, Len(deck) - 1)
    /\ dealer.total >= 17 =>
          /\ pc' = "check_winner"
          /\ dealer' = dealer /\ deck' = deck

C11_DealerPolicy ==
    /\ [][pc = "dealer" => DealerTurnStep]_vars
    /\ [][(pc # "dealer" /\ pc' = "check_winner" /\ pc # "side_eval")
            => FALSE]_vars
    /\ [](pc = "check_winner" => dealer.total >= 17)
    /\ (pc = "dealer" ~> pc \in {"check_winner", "crashed"})

\* the dealer has drawn to a total of 17 to 21 and the turn is over
C11_Witness ==
    /\ pc = "check_winner" /\ cur = 1 /\ round = 1
    /\ Len(dealer.hand) >= 4
    /\ dealer.total \in 17..21

----------------------------------------------------------------------------
(* C12: before the betting of a round begins every player whose balance is
   0 or less is taken off the roster and every player whose balance is above
   0 stays, in the same order; so no player with nothing left is asked to
   bet; the roster changes at no other point of a round and a player taken
   off it never comes back. *)
Roster(ps) == {ps[i] : i \in 1..Len(ps)}

InOrder(ps) == \A i, j \in 1..Len(ps) : i < j => ps[i] < ps[j]

C12_Elimination ==
    /\ [][pc = "loop" =>
            /\ Roster(players') = {p \in Roster(players) : balance[p] > 0}
            /\ InOrder(players')]_vars
    /\ [][pc \notin {"add_players", "loop", "continue"} =>
            players' = players]_vars
    /\ [][pc # "add_players" => Roster(players') \subseteq Roster(players)]_vars
    /\ [](pc = "bet" => balance[Me] > 0)

\* the second round's betting has begun without the player who lost
\* everything in the first
C12_Witness ==
    /\ pc = "bet" /\ round = 2
    /\ players = <<2>>
    /\ balance[1] = 0 /\ balance[2] > 0

----------------------------------------------------------------------------
(* C13: the phases of a round follow one another in one order: the bets of
   every player at the bet and side bet prompts, then the deal, then the
   turns of the players one at a time in roster order, then the dealer's
   draws, then the settlement of every player, and only then the next round.
   Bets change only in the first phase, cards are given only in the deal,
   the turns and the dealer's turn, the dealer gets cards only at the end of
   the deal and in the dealer's turn, and balances are credited only in the
   settlement. *)
PhaseOf(p) ==
    CASE p \in {"bet", "side_ask", "side_amt"} -> 1
      [] p \in {"check_deck", "deal"} -> 2
      [] p = "turn" -> 3
      [] p = "dealer" -> 4
      [] p \in {"check_winner", "side_eval"} -> 5
      [] p = "continue" -> 6
      [] OTHER -> 0

PhaseOrder ==
    /\ PhaseOf(pc) \in 1..5 /\ pc' # "crashed" =>
          /\ PhaseOf(pc') \in {PhaseOf(pc), PhaseOf(pc) + 1}
          /\ PhaseOf(pc) \in {1, 3, 5} =>
                /\ PhaseOf(pc') = PhaseOf(pc) => cur' \in {cur, cur + 1}
                /\ PhaseOf(pc') # PhaseOf(pc) => cur = Len(players) /\ cur' = 1
          /\ pc = "bet" => pc' \in {"bet", "side_ask"}
          /\ PhaseOf(pc) = 1 /\ (PhaseOf(pc') = 2 \/ cur' # cur) =>
                /\ kind = Len(SideKinds)
                /\ DOMAIN side_bets'[Me] = {SideKinds[i] : i \in 1..Len(SideKinds)}
          /\ pc = "deal" /\ pc' = "turn" => cur = Len(players) + 1
          /\ pc = "deal" /\ pc' = "deal" => cur' = cur + 1
          /\ pc = "dealer" /\ pc' = "check_winner" => dealer.total >= 17
    /\ pc' = "continue" => pc = "side_eval" /\ cur = Len(players)
    /\ pc' = "loop" => pc \in {"continue", "add_players"}
    /\ round' # round => pc = "loop" /\ round' = round + 1

PhaseEffects ==
    /\ (current_bet' # current_bet \/ side_bets' # side_bets) =>
          pc \in {"add_players", "bet", "side_ask", "side_amt"}
    /\ dealt' # dealt => PhaseOf(pc) \in {2, 3, 4}
    /\ (hand' # hand /\ pc # "add_players") =>
          /\ pc \in {"deal", "turn"}
          /\ \A p \in DOMAIN hand : p # Me => hand'[p] = hand[p]
    /\ dealer' # dealer =>
          \/ pc = "deal" /\ cur = Len(players) + 1
          \/ pc = "dealer"
    /\ (pc # "add_players" /\ \E p \in DOMAIN balance : balance'[p] > balance[p])
          => PhaseOf(pc) \in {1, 5}
    /\ (pc # "add_players" /\ \E p \in DOMAIN balance : balance'[p] < balance[p])
          => PhaseOf(pc) \in {1, 3}

C13_PhaseOrder == [][PhaseOrder /\ PhaseEffects]_vars

\* a second round has been played to its end by two players
C13_Witness ==
    /\ pc = "continue" /\ round = 2 /\ Len(players) = 2
    /\ \A p \in 1..2 : Len(hand[p]) >= 4 /\ staked[p] > 0
    /\ \E p \in 1..2 : mainNet[p] > 0

----------------------------------------------------------------------------
(* C14: a double down is accepted only on a hand of exactly two cards; an
   accepted double down takes the current bet off the balance once more, so
   that twice the bet is staked in all, gives the hand exactly one card and
   ends the turn on that hand whatever its total. *)
AcceptedDouble == pc = "turn" /\ current_bet[Me] <= balance[Me] /\ DoubleDown

DoubledHand == Append(hand[Me], deck[Len(deck)])

C14_DoubleDown ==
    [][AcceptedDouble =>
        /\ Len(hand[Me]) = 2
        /\ balance'[Me] = balance[Me] - current_bet[Me]
        /\ staked'[Me] = 2 * current_bet[Me]
        /\ Len(deck) > 0
        /\ IF PopDone(stack) = <<>>
           THEN /\ hand'[Me] = DoubledHand
                /\ deck' = SubSeq(deck, 1, Len(deck) - 1)
                /\ (cur' = cur + 1 /\ pc' = "turn") \/ pc' = "dealer"
           ELSE /\ Len(deck') = Len(deck) - 2
                /\ hand'[Me][1] = stack[Len(stack)].card2
                /\ stack' # stack]_vars

----------------------------------------------------------------------------
(* C15: a split is accepted only on a hand of exactly two cards of one
   rank; it makes two hands of one card each; the first gets exactly one
   card from the deck and is played, and when it ends, by a stand or by a
   bust, the second gets exactly one card and is played in turn; the turn
   passes to the next player only when both hands have been played. *)
SplitTaken ==
    /\ Len(hand[Me]) = 2 /\ hand[Me][1].rank = hand[Me][2].rank
    /\ Len(deck) > 0
    /\ hand'[Me] = <<hand[Me][1], deck[Len(deck)]>>
    /\ total'[Me] = BestTotal(hand'[Me])
    /\ deck' = SubSeq(deck, 1, Len(deck) - 1)
    /\ stack' = Append(stack, [i |-> 1, card2 |-> hand[Me][2]])
    /\ pc' = "turn" /\ cur' = cur

BustingHit ==
    /\ Hit /\ Len(deck) > 0
    /\ BestTotal(Append(hand[Me], deck[Len(deck)])) > 21

\* the hand being played ends, n cards having been taken for it, and a
\* second hand is waiting
SecondHandDealt(n) ==
    LET s == PopDone(stack) IN
    /\ Len(deck) > n
    /\ hand'[Me] = <<s[Len(s)].card2, deck[Len(deck) - n]>>
    /\ total'[Me] = BestTotal(hand'[Me])
    /\ deck' = SubSeq(deck, 1, Len(deck) - n - 1)
    /\ Len(stack') = Len(s) /\ stack'[Len(s)].i = 2
    /\ pc' = "turn" /\ cur' = cur

C15_Split ==
    [][pc = "turn" =>
        /\ Len(stack') > Len(stack) => SplitTaken
        /\ Split => SplitTaken
        /\ (Stand /\ PopDone(stack) # <<>>) => SecondHandDealt(0)
        /\ (BustingHit /\ PopDone(stack) # <<>>) => SecondHandDealt(1)
        /\ (cur' # cur \/ pc' = "dealer") =>
              PopDone(stack) = <<>> /\ stack' = <<>>]_vars

----------------------------------------------------------------------------
(* C16: while a hand made by a split is being played no split and no double
   down is accepted: no further split_hand call begins, so the player plays
   at most two hands in the round, and nothing is debited. *)
C16_NoResplitNoDouble ==
    [][(pc = "turn" /\ stack # <<>>) =>
        /\ Len(stack') <= 1
        /\ balance' = balance
        /\ staked' = staked]_vars

----------------------------------------------------------------------------
(* C17: a hit gives the hand being played exactly one card and leaves the
   balance and the bets alone; over 21 the hand is busted and its turn is
   over, otherwise the same player is asked again about the same hand, whose
   total with every Ace as 1 has grown and is at most 21, so that a hand is
   not hit for ever.  A stand ends the turn on the hand with hand, total,
   balance and deck as they were. *)
MoneyAlone ==
    /\ balance' = balance /\ current_bet' = current_bet
    /\ side_bets' = side_bets /\ staked' = staked

TurnPasses ==
    \/ cur < Len(players) /\ cur' = cur + 1 /\ pc' = "turn"
    \/ cur = Len(players) /\ pc' = "dealer"

HardTotal(h) == FixedSum(h) + Aces(h)

HitTaken ==
    /\ MoneyAlone
    /\ Len(deck) > 0
    /\ LET h2 == Append(hand[Me], deck[Len(deck)]) IN
       IF BestTotal(h2) > 21
       THEN /\ out' = {Busted}
            /\ IF PopDone(stack) = <<>>
               THEN /\ hand'[Me] = h2 /\ total'[Me] = BestTotal(h2)
                    /\ deck' = SubSeq(deck, 1, Len(deck) - 1)
                    /\ TurnPasses
               ELSE SecondHandDealt(1)
       ELSE /\ hand'[Me] = h2 /\ total'[Me] = BestTotal(h2)
            /\ deck' = SubSeq(deck, 1, Len(deck) - 1)
            /\ pc' = "turn" /\ cur' = cur /\ stack' = stack
            /\ HardTotal(h2) > HardTotal(hand[Me]) /\ HardTotal(h2) <= 21

StandTaken ==
    /\ MoneyAlone
    /\ IF PopDone(stack) = <<>>
       THEN /\ hand' = hand /\ total' = total /\ deck' = deck
            /\ TurnPasses
       ELSE SecondHandDealt(0)

C17_HitAndStand ==
    [][pc = "turn" => (Hit => HitTaken) /\ (Stand => StandTaken)]_vars

----------------------------------------------------------------------------
(* C18: an answer that is not accepted, that is an unknown one, d on a hand
   that has not exactly two cards or sp on a hand that is not two cards of
   one rank, changes nothing: hand, total, balance, bets, side bets and deck
   stay as they were and the same player is asked again about the same hand.
   So on a hand that has not exactly two cards no step debits a stake, and
   on a hand that is not two cards of one rank no step begins a split. *)
PairHeld == Len(hand[Me]) = 2 /\ hand[Me][1].rank = hand[Me][2].rank

C18_RejectedActionChangesNothing ==
    [][pc = "turn" =>
        /\ Invalid =>
              /\ out' = {InvalidInput}
              /\ UNCHANGED <<hand, total, balance, current_bet, side_bets,
                             deck, dealer, players, pc, cur, stack>>
        /\ Len(hand[Me]) # 2 => balance' = balance /\ staked' = staked
        /\ ~PairHeld => Len(stack') <= Len(stack)
        /\ (out' = {InvalidInput}) =>
              UNCHANGED <<hand, total, balance, current_bet, side_bets,
                         deck, dealer, players, pc, cur, stack>>]_vars

\* the player was asked again after an answer that a hand of three cards
\* does not allow
C18_Witness ==
    /\ pc = "turn" /\ out = {InvalidInput}
    /\ Len(hand[Me]) = 3 /\ total[Me] <= 21
    /\ current_bet[Me] <= balance[Me]

----------------------------------------------------------------------------
(* C19: in every round, the first and the later ones, when the deal is over
   the hand of every player on the roster is exactly the two cards the deal
   of this round gave the player, the dealer's hand is two cards, and every
   stored total is the value of those two cards. *)
C19_FreshHandsEachRound ==
    [][(pc = "deal" /\ pc' = "turn") =>
        /\ \A i \in 1..Len(players) :
              /\ hand'[players[i]] = firstTwo'[players[i]]
              /\ total'[players[i]] = BestTotal(firstTwo'[players[i]])
        /\ Len(dealer'.hand) = 2
        /\ dealer'.hand = <<deck[Len(deck)], deck[Len(deck) - 1]>>
        /\ dealer'.total = BestTotal(dealer'.hand)]_vars

----------------------------------------------------------------------------
(* C20: when a round has been settled every player on the roster has been
   credited for the main bet exactly once: nothing for a loss, current_bet
   for a push or twice current_bet for a win, by the stored total the player
   ended the turn with, which is the value of the hand played last; after a
   split that is the second hand, and what became of the first plays no
   part. *)
MainCredit(p) == mainNet[p] + staked[p]

DueCredit(p) ==
    IF total[p] > 21 THEN 0
    ELSE IF dealer.total > 21 \/ total[p] > dealer.total THEN 2 * current_bet[p]
    ELSE IF total[p] < dealer.total THEN 0
    ELSE current_bet[p]

C20_SettledOnce ==
    pc = "continue" =>
        \A i \in 1..Len(players) :
            /\ MainCredit(players[i]) = DueCredit(players[i])
            /\ total[players[i]] = BestTotal(hand[players[i]])

\* the value, every Ace as 1, of the cards given to neither the dealer, nor
\* the second player, nor the hand the first player holds
ValueOfOtherCards ==
    LET held == BagToSet(dealt)
        worth(c) == IF c.rank = "Ace" THEN 1 ELSE ranks[c.rank]
        RECURSIVE Sum(_)
        Sum(S) == IF S = {} THEN 0
                  ELSE LET c == CHOOSE x \in S : TRUE
                       IN  CopiesIn(c, dealt) * worth(c) + Sum(S \ {c})
    IN  Sum(held) - HardTotal(hand[1]) - HardTotal(hand[2])
            - HardTotal(dealer.hand)

\* the first of two players split, went over 21 on the first hand and won
\* the round on the second
C20_Witness ==
    /\ pc = "continue" /\ round = 1 /\ players = <<1, 2>>
    /\ hand[2] = firstTwo[2]
    /\ firstTwo[1][1].rank = firstTwo[1][2].rank
    /\ hand[1][1] = firstTwo[1][2]
    /\ ValueOfOtherCards > 21
    /\ total[1] <= 21
    /\ staked[1] = current_bet[1] /\ current_bet[1] > 0
    /\ mainNet[1] = current_bet[1]

====
